---- MODULE Spec2Model ----
(***************************************************************************)
(* Model of ItemDef_developer_tool.py: the two tools                       *)
(* generate_iso_26262_item_definition (generative mode) and                *)
(* generate_item_definition_template (guidance mode).                      *)
(*                                                                         *)
(* Python values are tagged records [t |-> type, v |-> value].  A Python   *)
(* str is a sequence of one-character strings, so that strip(), lower()    *)
(* and the substring test `in` are computed rather than assumed.  A        *)
(* Python dict is a sequence of <<key, value>> pairs (insertion order).    *)
(* Floats are tenths: 1.0 is 10, 2.0 is 20.                                *)
(***************************************************************************)
EXTENDS Integers, Sequences, FiniteSets, TLC

VARIABLES
    store,            \* content of the file at TEMPLATE_PATH
    gstore,           \* content of the file at GUIDANCE_TEMPLATE_PATH
    pc,               \* position of the running tool call
    fn,               \* the tool that is running or has last run
    tool_input,       \* the argument of the call
    system_name,      \* local
    system_id,        \* local
    focus_section,    \* local
    template,         \* local: the loaded template
    boosted_sections, \* local
    output_lines,     \* local
    si,               \* index of the section the loop at line 109 is at
    sj,               \* index of the subsection the loop at line 120 is at
    prompt,           \* local: the prompt handed to cat.llm
    llm_log,          \* the invocations of cat.llm made by the call
    result,           \* what the call returned
    exc,              \* the exception the call raised
    working_memory,   \* cat.working_memory
    earlier_boosts    \* history: the nodes the call before this one boosted

vars == <<store, gstore, pc, fn, tool_input, system_name, system_id,
          focus_section, template, boosted_sections, output_lines, si, sj,
          prompt, llm_log, result, exc, working_memory, earlier_boosts>>

----------------------------------------------------------------------------
(* Python values *)

PyNone == [t |-> "None"]
PyStr(s) == [t |-> "str", v |-> s]
PyInt(n) == [t |-> "int", v |-> n]
PyDict(d) == [t |-> "dict", v |-> d]
PyList(l) == [t |-> "list", v |-> l]
PyBool(b) == [t |-> "bool", v |-> b]

IsStr(x) == x.t = "str"
IsDict(x) == x.t = "dict"

\* Python truth value, as `if focus_section:` and `system_id or ...` use it
Truthy(x) ==
    CASE x.t = "None" -> FALSE
      [] x.t = "str" -> x.v /= <<>>
      [] x.t = "int" -> x.v /= <<"0">>
      [] x.t = "bool" -> x.v
      [] OTHER -> x.v /= <<>>

RECURSIVE DictGetFrom(_, _, _, _)
DictGetFrom(d, k, default, n) ==
    IF n = 0 THEN default
    ELSE IF d[n][1] = k THEN d[n][2]
    ELSE DictGetFrom(d, k, default, n - 1)

\* dict.get(k, default); the last pair with the key is the one that counts
DictGet(d, k, default) == DictGetFrom(d, k, default, Len(d))

DictHas(d, k) == \E n \in 1..Len(d) : d[n][1] = k

\* d[k] = v: replaces the value in place, or appends a new key
DictPut(d, k, v) ==
    IF DictHas(d, k)
    THEN [n \in 1..Len(d) |-> IF d[n][1] = k THEN <<k, v>> ELSE d[n]]
    ELSE Append(d, <<k, v>>)

----------------------------------------------------------------------------
(* str operations *)

UpperCase == <<"A","B","C","D","E","F","G","H","I","J","K","L","M",
               "N","O","P","Q","R","S","T","U","V","W","X","Y","Z">>
LowerCase == <<"a","b","c","d","e","f","g","h","i","j","k","l","m",
               "n","o","p","q","r","s","t","u","v","w","x","y","z">>

LowerChar(c) ==
    IF \E n \in 1..26 : UpperCase[n] = c
    THEN LowerCase[CHOOSE n \in 1..26 : UpperCase[n] = c]
    ELSE c

UpperChar(c) ==
    IF \E n \in 1..26 : LowerCase[n] = c
    THEN UpperCase[CHOOSE n \in 1..26 : LowerCase[n] = c]
    ELSE c

\* str.lower()
Lower(s) == [n \in 1..Len(s) |-> LowerChar(s[n])]

\* str.upper()
Upper(s) == [n \in 1..Len(s) |-> UpperChar(s[n])]

\* str.replace(a, b) for single characters
Replace(s, a, b) == [n \in 1..Len(s) |-> IF s[n] = a THEN b ELSE s[n]]

IsSpace(c) == c = " "

\* str.strip()
Strip(s) ==
    IF \A n \in 1..Len(s) : IsSpace(s[n]) THEN <<>>
    ELSE LET first == CHOOSE n \in 1..Len(s) :
                          ~IsSpace(s[n]) /\ \A m \in 1..(n - 1) : IsSpace(s[m])
             last == CHOOSE n \in 1..Len(s) :
                          ~IsSpace(s[n]) /\ \A m \in (n + 1)..Len(s) : IsSpace(s[m])
         IN SubSeq(s, first, last)

\* a in b, for two str
Contains(a, b) ==
    \E n \in 0..(Len(b) - Len(a)) : SubSeq(b, n + 1, n + Len(a)) = a

----------------------------------------------------------------------------
(* json.loads, for the JSON of the inputs: whitespace, integers, strings   *)
(* without escapes, the three literals, arrays and objects.  A parse       *)
(* yields [ok, val, pos]; pos is the index after the value.                *)

Digits == {"0","1","2","3","4","5","6","7","8","9"}

ParseFail == [ok |-> FALSE, val |-> PyNone, pos |-> 0]
ParseOk(v, p) == [ok |-> TRUE, val |-> v, pos |-> p]

RECURSIVE SkipWs(_, _)
SkipWs(s, p) == IF p <= Len(s) /\ IsSpace(s[p]) THEN SkipWs(s, p + 1) ELSE p

RECURSIVE DigitsEnd(_, _)
DigitsEnd(s, p) == IF p <= Len(s) /\ s[p] \in Digits THEN DigitsEnd(s, p + 1) ELSE p

RECURSIVE QuoteAt(_, _)
QuoteAt(s, p) ==
    IF p > Len(s) THEN 0 ELSE IF s[p] = "\"" THEN p ELSE QuoteAt(s, p + 1)

HasPrefixAt(s, p, w) == p + Len(w) - 1 <= Len(s) /\ SubSeq(s, p, p + Len(w) - 1) = w

ParseString(s, p) ==
    LET q == QuoteAt(s, p + 1)
    IN IF q = 0 THEN ParseFail ELSE ParseOk(PyStr(SubSeq(s, p + 1, q - 1)), q + 1)

RECURSIVE ParseValue(_, _)
RECURSIVE ParseMembers(_, _, _)
RECURSIVE ParseElements(_, _, _)

\* the members of an object after `{` or `,`; acc is the dict read so far
ParseMembers(s, p0, acc) ==
    LET p == SkipWs(s, p0)
    IN IF p > Len(s) \/ s[p] /= "\"" THEN ParseFail
       ELSE LET k == ParseString(s, p)
            IN IF ~k.ok THEN ParseFail
               ELSE LET c == SkipWs(s, k.pos)
                    IN IF c > Len(s) \/ s[c] /= ":" THEN ParseFail
                       ELSE LET v == ParseValue(s, c + 1)
                            IN IF ~v.ok THEN ParseFail
                               ELSE LET e == SkipWs(s, v.pos)
                                        d == DictPut(acc, k.val.v, v.val)
                                    IN IF e > Len(s) THEN ParseFail
                                       ELSE IF s[e] = "}" THEN ParseOk(PyDict(d), e + 1)
                                       ELSE IF s[e] = "," THEN ParseMembers(s, e + 1, d)
                                       ELSE ParseFail

ParseElements(s, p0, acc) ==
    LET v == ParseValue(s, p0)
    IN IF ~v.ok THEN ParseFail
       ELSE LET e == SkipWs(s, v.pos)
                l == Append(acc, v.val)
            IN IF e > Len(s) THEN ParseFail
               ELSE IF s[e] = "]" THEN ParseOk(PyList(l), e + 1)
               ELSE IF s[e] = "," THEN ParseElements(s, e + 1, l)
               ELSE ParseFail

ParseValue(s, p0) ==
    LET p == SkipWs(s, p0)
    IN IF p > Len(s) THEN ParseFail
       ELSE IF s[p] \in Digits
            THEN LET e == DigitsEnd(s, p)
                 IN IF s[p] = "0" /\ e > p + 1 THEN ParseFail
                    ELSE ParseOk(PyInt(SubSeq(s, p, e - 1)), e)
       ELSE IF s[p] = "\"" THEN ParseString(s, p)
       ELSE IF HasPrefixAt(s, p, <<"n","u","l","l">>) THEN ParseOk(PyNone, p + 4)
       ELSE IF HasPrefixAt(s, p, <<"t","r","u","e">>) THEN ParseOk(PyBool(TRUE), p + 4)
       ELSE IF HasPrefixAt(s, p, <<"f","a","l","s","e">>) THEN ParseOk(PyBool(FALSE), p + 5)
       ELSE IF s[p] = "{"
            THEN LET q == SkipWs(s, p + 1)
                 IN IF q <= Len(s) /\ s[q] = "}" THEN ParseOk(PyDict(<<>>), q + 1)
                    ELSE ParseMembers(s, p + 1, <<>>)
       ELSE IF s[p] = "["
            THEN LET q == SkipWs(s, p + 1)
                 IN IF q <= Len(s) /\ s[q] = "]" THEN ParseOk(PyList(<<>>), q + 1)
                    ELSE ParseElements(s, p + 1, <<>>)
       ELSE ParseFail

\* json.loads(s): [ok |-> FALSE] stands for JSONDecodeError
JsonLoads(s) ==
    LET r == ParseValue(s, 1)
    IN IF r.ok /\ SkipWs(s, r.pos) > Len(s) THEN r ELSE ParseFail

----------------------------------------------------------------------------
(* Node records: a section's or subsection's data is a record whose        *)
(* DOMAIN is the set of keys the JSON object has.                          *)

Has(d, k) == k \in DOMAIN d

\* d[k] = v on a node
RecPut(d, k, v) == [x \in DOMAIN d \cup {k} |-> IF x = k THEN v ELSE d[x]]

\* str(x) as an f-string or str.format renders a value
StrOf(x) ==
    CASE x.t = "str" -> x.v
      [] x.t = "int" -> x.v
      [] x.t = "None" -> <<"N","o","n","e">>
      [] x.t = "bool" -> IF x.v THEN <<"T","r","u","e">> ELSE <<"F","a","l","s","e">>
      [] OTHER -> <<"<", x.t, ">">>

\* datetime.now().strftime("%Y-%m-%d")
now_str == <<"2","0","2","5","-","0","1","-","0","1">>

DefaultSystemName == <<"U","n","k","n","o","w","n"," ","S","y","s","t","e","m">>
DefaultItemName == <<"[","I","t","e","m"," ","N","a","m","e","]">>
FocusMarker == <<"[FOCUS AREA - IMPORTANT] ">>
FailedLine == <<"[Content generation failed]">>
LoadErrorText == <<"Error: Could not load Item Definition template.">>
GuidanceLoadErrorText == <<"Error: Could not load Item Definition template guidance.">>

\* weights in tenths
DefaultWeight == 10
BoostedWeight == 20
MarkerThreshold == 10

K_system_name == <<"system_name">>
K_system_id == <<"system_id">>
K_focus_section == <<"focus_section">>

----------------------------------------------------------------------------
(* generate_iso_26262_item_definition, lines 43-58 *)

\* lines 49-54: a str input is parsed as JSON; the parsed value replaces it
ParsedInput(ti) ==
    IF IsStr(ti)
    THEN LET r == JsonLoads(ti.v) IN IF r.ok THEN r.val ELSE ti
    ELSE ti

\* lines 44, 52-54: the name before the dict is read
NameBeforeDict(ti) ==
    IF IsStr(ti) /\ ~JsonLoads(ti.v).ok THEN PyStr(Strip(ti.v))
    ELSE PyStr(DefaultSystemName)

\* lines 43-58
ParseToolInput(ti) ==
    LET p == ParsedInput(ti)
        name == NameBeforeDict(ti)
    IN IF IsDict(p)
       THEN [system_name |-> DictGet(p.v, K_system_name, name),
             system_id |-> DictGet(p.v, K_system_id, PyStr(<<>>)),
             focus_section |-> DictGet(p.v, K_focus_section, PyNone)]
       ELSE [system_name |-> name, system_id |-> PyStr(<<>>), focus_section |-> PyNone]

\* the local `template` before line 63 binds it
NoTemplate == [unset |-> TRUE]

\* variant: the except branch of lines 64-66 does not return
LoadableAlways(file) == TRUE

(* lines 60-66: open + json.load *)
Loadable(file) == file.kind = "json"

\* variant: a module-level template object handed to every call
LoadTemplateShared(file) ==
    IF Has(template, "sections") THEN template
    ELSE IF file.kind = "json" THEN file.v ELSE NoTemplate

\* json.load(f): a value parsed from the file's text, shared with no one;
\* nothing is bound when the load fails
LoadTemplate(file) == IF file.kind = "json" THEN file.v ELSE NoTemplate

(* lines 68-73 *)
PersonalizeRaises(t, name, id) ==
    IF ~Has(t, "metadata") \/ ~Has(t, "system_info") THEN "KeyError"
    ELSE IF ~Truthy(id) /\ ~IsStr(name) THEN "AttributeError"
    ELSE "none"

ItemId(name, id) ==
    IF Truthy(id) THEN id
    ELSE PyStr(Replace(Upper(name.v), " ", "_") \o <<"_","D","E","F","A","U","L","T">>)

Personalize(t, name, id) ==
    [t EXCEPT !.metadata = RecPut(@, "generated_date", now_str),
              !.system_info =
                  RecPut(RecPut(RecPut(@, "item_name", name),
                                "item_id", ItemId(name, id)),
                         "description",
                         <<"The ">> \o StrOf(name)
                            \o <<" is a critical automotive system responsible for...">>)]

----------------------------------------------------------------------------
(* lines 75-100: focus weighting *)

\* line 83 / 92: sec_data.get("title", "").lower()
TitleLower(d) == IF Has(d, "title") THEN Lower(d.title) ELSE <<>>

\* line 84 / 93
FocusMatches(focus, key, d) ==
    Contains(focus, Lower(key)) \/ Contains(focus, TitleLower(d))

\* lines 81-86
BoostSections(secs, focus) ==
    [n \in 1..Len(secs) |->
        IF FocusMatches(focus, secs[n][1], secs[n][2])
        THEN <<secs[n][1], RecPut(secs[n][2], "weight", BoostedWeight)>>
        ELSE secs[n]]

BoostSubs(subs, focus) ==
    [m \in 1..Len(subs) |->
        IF FocusMatches(focus, subs[m][1], subs[m][2])
        THEN <<subs[m][1], RecPut(subs[m][2], "weight", BoostedWeight)>>
        ELSE subs[m]]

\* lines 89-94
BoostSubsections(secs, focus) ==
    [n \in 1..Len(secs) |->
        IF Has(secs[n][2], "subsections")
        THEN <<secs[n][1],
               [secs[n][2] EXCEPT !.subsections = BoostSubs(@, focus)]>>
        ELSE secs[n]]

RECURSIVE BoostedSubNames(_, _, _, _)
BoostedSubNames(sec_key, subs, focus, m) ==
    IF m > Len(subs) THEN <<>>
    ELSE (IF FocusMatches(focus, subs[m][1], subs[m][2])
          THEN << <<sec_key, subs[m][1]>> >> ELSE <<>>)
         \o BoostedSubNames(sec_key, subs, focus, m + 1)

RECURSIVE BoostedNames(_, _, _, _)
\* lines 78, 86, 95: pass 1 lists the section keys, pass 2 the "sec -> sub" pairs
BoostedNames(secs, focus, pass, n) ==
    IF n > Len(secs) THEN <<>>
    ELSE (IF pass = 1
          THEN (IF FocusMatches(focus, secs[n][1], secs[n][2])
                THEN << <<secs[n][1]>> >> ELSE <<>>)
          ELSE (IF Has(secs[n][2], "subsections")
                THEN BoostedSubNames(secs[n][1], secs[n][2].subsections, focus, 1)
                ELSE <<>>))
         \o BoostedNames(secs, focus, pass, n + 1)

\* lines 104-107
Header(t, name) ==
    << <<"# ISO 26262 Item Definition: ">> \o StrOf(name),
       <<"*Work Product: ">> \o t.metadata.work_product \o <<"*">>,
       <<"*Generated on: ">> \o now_str \o <<"*">>,
       <<>> >>

----------------------------------------------------------------------------
(* lines 109-163: traversal *)

KnownFields == {"system_name", "system_id", "datetime_now"}

\* str.format(system_name=, system_id=, datetime_now=): a prompt is a
\* sequence of tokens, [lit |-> c] a character and [field |-> f] the
\* replacement field {f}.  A field that is no keyword raises KeyError.
FormatRaises(p) == \E n \in 1..Len(p) : Has(p[n], "field") /\ p[n].field \notin KnownFields

RECURSIVE FormatFrom(_, _, _, _)
FormatFrom(p, name, id, n) ==
    IF n > Len(p) THEN <<>>
    ELSE (IF Has(p[n], "lit") THEN <<p[n].lit>>
          ELSE IF p[n].field = "system_name" THEN StrOf(name)
          ELSE IF p[n].field = "system_id" THEN StrOf(id)
          ELSE now_str)
         \o FormatFrom(p, name, id, n + 1)

Format(p, name, id) == FormatFrom(p, name, id, 1)

\* variant: the threshold 1.5 instead of 1.0
NeedsMarkerAbove15(d) == (IF Has(d, "weight") THEN d.weight ELSE DefaultWeight) > 15

\* line 132 / 152: d.get("weight", 1.0) > 1.0
NeedsMarker(d) == (IF Has(d, "weight") THEN d.weight ELSE DefaultWeight) > MarkerThreshold

\* lines 127-133 / 147-153
BuildPrompt(d, name, id) ==
    IF NeedsMarker(d) THEN FocusMarker \o Format(d.prompt, name, id)
    ELSE Format(d.prompt, name, id)

\* the exception lines 127 / 147 raise, "none" when they do not
BuildPromptRaises(d) ==
    IF ~Has(d, "prompt") THEN "KeyError"
    ELSE IF FormatRaises(d.prompt) THEN "KeyError"
    ELSE "none"

\* lines 114-116 / 122-124
HeadingLines(mark, d) ==
    << mark \o d.title >>
    \o (IF Has(d, "clause_ref") THEN << <<"*Clause: ">> \o d.clause_ref \o <<"*">> >> ELSE <<>>)

\* line 110
SectionSkipped(d) == ~Has(d, "title")

\* variant: a section with a prompt of its own is rendered as a leaf
IsCompositeWithoutPrompt(d) == Has(d, "subsections") /\ ~Has(d, "prompt")

\* line 119
IsComposite(d) == Has(d, "subsections")

\* lines 136-141 / 156-161: what the try block appends for a reply;
\* content.strip() on a reply that is no str raises and is caught
ReplyLine(reply) == IF IsStr(reply) THEN Strip(reply.v) ELSE FailedLine

ReplyStored(reply) == IsStr(reply)

RECURSIVE JoinFrom(_, _)
JoinFrom(lines, n) ==
    IF n > Len(lines) THEN <<>>
    ELSE IF n = Len(lines) THEN lines[n]
    ELSE lines[n] \o <<"\n">> \o JoinFrom(lines, n + 1)

\* "\n".join(output_lines)
Join(lines) == JoinFrom(lines, 1)

----------------------------------------------------------------------------
(* STATE MACHINE *)

Pending == [t |-> "pending"]
Raised == [t |-> "raised"]

GenTool == "generate_iso_26262_item_definition"
GuideTool == "generate_item_definition_template"

Ended == {"returned", "raised"}
Traversing == {"section", "sub", "llm"}

\* variant: the pairs in the reverse of the insertion order
ItemsReversed(d) == [n \in 1..Len(d) |-> d[Len(d) + 1 - n]]

\* dict.items(), lines 109 / 120 / 212 / 224: the pairs in insertion order
Items(d) == d

Sections == Items(template.sections)
SecKey == Sections[si][1]
SecData == Sections[si][2]
Subsections == Items(SecData.subsections)
SubKey == Subsections[sj][1]
SubData == Subsections[sj][2]

\* the node the call is at: a section (sj = 0) or a subsection
NodePath == IF sj = 0 THEN <<SecKey>> ELSE <<SecKey, SubKey>>

RaiseWith(e) ==
    /\ pc' = "raised"
    /\ exc' = e
    /\ UNCHANGED <<result, working_memory>>

(* lines 41-73: the input is read, the template loaded and personalized *)
GenInvoke(ti) ==
    /\ pc = "idle"
    /\ LET a == ParseToolInput(ti)
       IN /\ fn' = GenTool
          /\ tool_input' = ti
          /\ system_name' = a.system_name
          /\ system_id' = a.system_id
          /\ focus_section' = a.focus_section
          /\ boosted_sections' = <<>>
          /\ output_lines' = <<>>
          /\ si' = 0
          /\ sj' = 0
          /\ prompt' = <<>>
          /\ llm_log' = <<>>
          /\ working_memory' = <<>>
          /\ IF ~Loadable(store)
             THEN /\ pc' = "returned"
                  /\ result' = PyStr(LoadErrorText)
                  /\ exc' = "none"
                  /\ template' = NoTemplate
             ELSE LET t == LoadTemplate(store)
                      e == PersonalizeRaises(t, a.system_name, a.system_id)
                  IN /\ result' = PyNone
                     /\ IF e /= "none"
                        THEN /\ pc' = "raised"
                             /\ exc' = e
                             /\ template' = t
                        ELSE /\ pc' = "focus"
                             /\ exc' = "none"
                             /\ template' = Personalize(t, a.system_name, a.system_id)
    /\ UNCHANGED <<store, gstore, earlier_boosts>>

(* lines 75-107: the weights are boosted, the header is written *)
ApplyFocus ==
    /\ pc = "focus"
    /\ IF Truthy(focus_section) /\ ~IsStr(focus_section)
       THEN /\ RaiseWith("AttributeError")
            /\ UNCHANGED <<focus_section, template, boosted_sections, output_lines, si>>
       ELSE LET f == IF Truthy(focus_section) THEN Lower(focus_section.v) ELSE <<>>
                secs == IF Truthy(focus_section)
                        THEN BoostSubsections(BoostSections(Sections, f), f)
                        ELSE Sections
            IN /\ focus_section' = IF Truthy(focus_section) THEN PyStr(f) ELSE focus_section
               /\ template' = [template EXCEPT !.sections = secs]
               /\ boosted_sections' =
                      IF Truthy(focus_section)
                      THEN BoostedNames(Sections, f, 1, 1) \o BoostedNames(Sections, f, 2, 1)
                      ELSE <<>>
               /\ IF ~Has(template.metadata, "work_product")
                  THEN /\ RaiseWith("KeyError")
                       /\ UNCHANGED <<output_lines, si>>
                  ELSE /\ output_lines' = Header(template, system_name)
                       /\ pc' = "section"
                       /\ si' = 1
                       /\ UNCHANGED <<result, exc, working_memory>>
    /\ UNCHANGED <<store, gstore, fn, tool_input, system_name, system_id, sj,
                   prompt, llm_log, earlier_boosts>>

\* line 136 / 156: cat.llm(prompt) is called for the node the call is at
Dispatch(d, heading) ==
    LET p == BuildPrompt(d, system_name, system_id)
    IN /\ output_lines' = output_lines \o heading
       /\ prompt' = p
       /\ llm_log' = Append(llm_log, [node |-> NodePath, prompt |-> p, reply |-> Pending])
       /\ pc' = "llm"
       /\ UNCHANGED <<result, exc, working_memory>>

(* lines 109-119 and 145-156: one turn of the loop over the sections, up to *)
(* the call of cat.llm for a section without subsections                    *)
SectionStep ==
    /\ pc = "section"
    /\ si <= Len(Sections)
    /\ sj = 0
    /\ IF SectionSkipped(SecData)
       THEN /\ si' = si + 1
            /\ UNCHANGED <<pc, sj, output_lines, prompt, llm_log, result, exc,
                           working_memory>>
       ELSE IF IsComposite(SecData)
       THEN /\ output_lines' = output_lines \o HeadingLines(<<"## ">>, SecData)
            /\ pc' = "sub"
            /\ sj' = 1
            /\ UNCHANGED <<si, prompt, llm_log, result, exc, working_memory>>
       ELSE IF BuildPromptRaises(SecData) /= "none"
       THEN /\ RaiseWith(BuildPromptRaises(SecData))
            /\ output_lines' = output_lines \o HeadingLines(<<"## ">>, SecData)
            /\ UNCHANGED <<si, sj, prompt, llm_log>>
       ELSE /\ Dispatch(SecData, HeadingLines(<<"## ">>, SecData))
            /\ UNCHANGED <<si, sj>>
    /\ UNCHANGED <<store, gstore, fn, tool_input, system_name, system_id,
                   focus_section, template, boosted_sections, earlier_boosts>>

(* lines 120-136: one turn of the loop over the subsections, up to the call *)
(* of cat.llm                                                               *)
SubStep ==
    /\ pc = "sub"
    /\ IF sj > Len(Subsections)
       THEN /\ pc' = "section"
            /\ si' = si + 1
            /\ sj' = 0
            /\ UNCHANGED <<output_lines, prompt, llm_log, result, exc, working_memory>>
       ELSE IF ~Has(SubData, "title")
       THEN /\ RaiseWith("KeyError")
            /\ UNCHANGED <<si, sj, output_lines, prompt, llm_log>>
       ELSE IF BuildPromptRaises(SubData) /= "none"
       THEN /\ RaiseWith(BuildPromptRaises(SubData))
            /\ output_lines' = output_lines \o HeadingLines(<<"### ">>, SubData)
            /\ UNCHANGED <<si, sj, prompt, llm_log>>
       ELSE /\ Dispatch(SubData, HeadingLines(<<"### ">>, SubData))
            /\ UNCHANGED <<si, sj>>
    /\ UNCHANGED <<store, gstore, fn, tool_input, system_name, system_id,
                   focus_section, template, boosted_sections, earlier_boosts>>

\* the node's data with content stored (line 137 / 157)
StoreContent(t, reply) ==
    IF ~ReplyStored(reply) THEN t
    ELSE IF sj = 0
    THEN [t EXCEPT !.sections[si][2] = RecPut(@, "content", Strip(reply.v))]
    ELSE [t EXCEPT !.sections[si][2].subsections[sj][2] =
                        RecPut(@, "content", Strip(reply.v))]

\* where the traversal goes after a leaf: the next subsection, or the next section
AfterLeaf ==
    IF sj = 0
    THEN /\ pc' = "section" /\ si' = si + 1 /\ sj' = 0
    ELSE /\ pc' = "sub" /\ sj' = sj + 1 /\ si' = si

Answer(reply) == [llm_log EXCEPT ![Len(llm_log)].reply = reply]

\* the replies cat.llm gives to a prompt: text (with whitespace around it),
\* or something that is no str
Replies(p) == {PyStr(<<" ", "r", ":">> \o p \o <<" ">>), PyNone}

(* lines 136-143 / 156-163: cat.llm returns *)
LlmReturns(reply) ==
    /\ pc = "llm"
    /\ template' = StoreContent(template, reply)
    /\ output_lines' = output_lines \o <<ReplyLine(reply), <<>> >>
    /\ llm_log' = Answer(reply)
    /\ AfterLeaf
    /\ UNCHANGED <<store, gstore, fn, tool_input, system_name, system_id,
                   focus_section, boosted_sections, prompt, result, exc,
                   working_memory, earlier_boosts>>

\* variant: no try/except around cat.llm, the exception leaves the tool
LlmRaisesPropagates ==
    /\ pc = "llm"
    /\ RaiseWith("Exception")
    /\ llm_log' = Answer(Raised)
    /\ UNCHANGED <<store, gstore, fn, tool_input, system_name, system_id,
                   focus_section, template, boosted_sections, output_lines,
                   si, sj, prompt, earlier_boosts>>

(* lines 139-143 / 159-163: cat.llm raises *)
LlmRaises ==
    /\ pc = "llm"
    /\ output_lines' = output_lines \o <<FailedLine, <<>> >>
    /\ llm_log' = Answer(Raised)
    /\ AfterLeaf
    /\ UNCHANGED <<store, gstore, fn, tool_input, system_name, system_id,
                   focus_section, template, boosted_sections, prompt, result,
                   exc, working_memory, earlier_boosts>>

(* lines 165-169 *)
Finish ==
    /\ pc = "section"
    /\ si > Len(Sections)
    /\ working_memory' = DictPut(DictPut(working_memory, <<"document_type">>,
                                         PyStr(<<"item_definition">>)),
                                 <<"system_name">>, system_name)
    /\ result' = PyStr(Join(output_lines))
    /\ pc' = "returned"
    /\ UNCHANGED <<store, gstore, fn, tool_input, system_name, system_id,
                   focus_section, template, boosted_sections, output_lines,
                   si, sj, prompt, llm_log, exc, earlier_boosts>>

----------------------------------------------------------------------------
(* generate_item_definition_template, lines 183-331 *)

\* lines 186-190
GuideName(ti) ==
    IF IsStr(ti) /\ Strip(ti.v) /= <<>> THEN PyStr(Strip(ti.v))
    ELSE IF IsDict(ti) THEN DictGet(ti.v, K_system_name, PyStr(DefaultItemName))
    ELSE PyStr(DefaultItemName)

IsLetter(c) == \E n \in 1..26 : UpperCase[n] = c \/ LowerCase[n] = c

\* str.replace("_", " ").title()
TitleCase(s0) ==
    LET s == Replace(s0, "_", " ")
    IN [n \in 1..Len(s) |->
           IF n = 1 \/ ~IsLetter(s[n - 1]) THEN UpperChar(s[n]) ELSE LowerChar(s[n])]

RECURSIVE Bullets(_, _)
\* for x in items: output_lines.append(f"- {x}")
Bullets(items, n) ==
    IF n > Len(items) THEN <<>>
    ELSE << <<"- ">> \o items[n] >> \o Bullets(items, n + 1)

\* a titled text block: lines 231-240, 301-309
TextBlock(d, k, head) ==
    IF Has(d, k) THEN << head, d[k], <<>> >> ELSE <<>>

\* a titled bulleted list: lines 243-254, 290-294, 317-321
ListBlock(d, k, head) ==
    IF Has(d, k) THEN <<head>> \o Bullets(d[k], 1) \o << <<>> >> ELSE <<>>

RECURSIVE CategoryGroups(_, _)
\* lines 261-269
CategoryGroups(c, n) ==
    IF n > Len(c) THEN <<>>
    ELSE << <<"**">> \o TitleCase(c[n][1]) \o <<":**">> >>
         \o (IF c[n][2].t = "list" THEN Bullets(c[n][2].v, 1) ELSE <<StrOf(c[n][2])>>)
         \o << <<>> >>
         \o CategoryGroups(c, n + 1)

\* lines 257-274
CategoriesBlock(d) ==
    IF ~Has(d, "categories") THEN <<>>
    ELSE IF d.categories.t = "dict" THEN CategoryGroups(d.categories.v, 1)
    ELSE IF d.categories.t = "list"
    THEN << <<"**Categories:**">> >> \o Bullets(d.categories.v, 1) \o << <<>> >>
    ELSE <<>>

RECURSIVE StructureEntries(_, _)
StructureEntries(c, n) ==
    IF n > Len(c) THEN <<>>
    ELSE << <<"**">> \o TitleCase(c[n][1]) \o <<":**">>, c[n][2], <<>> >>
         \o StructureEntries(c, n + 1)

\* lines 277-282
StructureBlock(d) == IF Has(d, "structure") THEN StructureEntries(d.structure, 1) ELSE <<>>

\* lines 285-287
NoteBlock(d) ==
    IF Has(d, "note") THEN << <<"*Note: ">> \o d.note \o <<"*">>, <<>> >> ELSE <<>>

RECURSIVE RoleLines(_, _)
RoleLines(items, n) ==
    IF n > Len(items) THEN <<>>
    ELSE << <<"- ">> \o items[n] \o <<": ____________ (Signature) ________ (Date)">> >>
         \o RoleLines(items, n + 1)

\* lines 311-315
RolesBlock(d) ==
    IF Has(d, "roles")
    THEN << <<"**Approval Roles:**">> >> \o RoleLines(d.roles, 1) \o << <<>> >>
    ELSE <<>>

\* lines 217-220 / 225-228
GuideHeading(mark, d) == HeadingLines(mark, d) \o << <<>> >>

\* lines 225-297: one subsection
GuideSubLines(d) ==
    GuideHeading(<<"### ">>, d)
    \o TextBlock(d, "guidance", <<"**Guidance:**">>)
    \o TextBlock(d, "format", <<"**Format:**">>)
    \o ListBlock(d, "examples", <<"**Examples:**">>)
    \o ListBlock(d, "modes_to_consider", <<"**Operating Modes to Consider:**">>)
    \o CategoriesBlock(d)
    \o StructureBlock(d)
    \o NoteBlock(d)
    \o ListBlock(d, "scenarios_to_consider", <<"**Scenarios to Consider:**">>)
    \o << <<"---">>, <<>> >>

\* lines 301-324: a section without subsections
GuideLeafLines(d) ==
    TextBlock(d, "guidance", <<"**Guidance:**">>)
    \o TextBlock(d, "example", <<"**Example:**">>)
    \o RolesBlock(d)
    \o ListBlock(d, "configuration_items", <<"**Configuration Management:**">>)
    \o << <<"---">>, <<>> >>

\* line 225: sub_data['title'] raises KeyError on a subsection without title
GuideSubRaises(d) == ~Has(d, "title")

RECURSIVE GuideSubs(_, _)
\* lines 224-297; [raises, lines]
GuideSubs(subs, m) ==
    IF m > Len(subs) THEN [raises |-> FALSE, lines |-> <<>>]
    ELSE IF GuideSubRaises(subs[m][2]) THEN [raises |-> TRUE, lines |-> <<>>]
    ELSE LET rest == GuideSubs(subs, m + 1)
         IN [raises |-> rest.raises,
             lines |-> GuideSubLines(subs[m][2]) \o rest.lines]

RECURSIVE GuideSections(_, _)
\* lines 212-324; [raises, lines]
GuideSections(secs, n) ==
    IF n > Len(secs) THEN [raises |-> FALSE, lines |-> <<>>]
    ELSE LET d == secs[n][2]
             rest == GuideSections(secs, n + 1)
         IN IF SectionSkipped(d) THEN rest
            ELSE IF IsComposite(d)
            THEN LET sub == GuideSubs(Items(d.subsections), 1)
                 IN [raises |-> sub.raises \/ rest.raises,
                     lines |-> GuideHeading(<<"## ">>, d) \o sub.lines \o rest.lines]
            ELSE [raises |-> rest.raises,
                  lines |-> GuideHeading(<<"## ">>, d) \o GuideLeafLines(d) \o rest.lines]

\* lines 205-209
GuideHeaderRaises(t) ==
    ~Has(t, "metadata") \/ ~Has(t.metadata, "work_product")
        \/ ~Has(t.metadata, "document_type")

GuideHeader(t, name) ==
    << <<"# ISO 26262 Item Definition: ">> \o StrOf(name),
       <<"*Work Product: ">> \o t.metadata.work_product \o <<"*">>,
       <<"*Generated on: ">> \o now_str \o <<"*">>,
       <<"*Document Type: ">> \o t.metadata.document_type \o <<"*">>,
       <<>> >>

(* lines 183-331: the whole tool; it calls nothing that blocks *)
GuideInvoke(ti) ==
    /\ pc = "idle"
    /\ fn' = GuideTool
    /\ tool_input' = ti
    /\ system_name' = GuideName(ti)
    /\ system_id' = PyNone
    /\ focus_section' = PyNone
    /\ boosted_sections' = <<>>
    /\ si' = 0
    /\ sj' = 0
    /\ prompt' = <<>>
    /\ llm_log' = <<>>
    /\ IF ~Loadable(gstore)
       THEN /\ pc' = "returned"
            /\ result' = PyStr(GuidanceLoadErrorText)
            /\ exc' = "none"
            /\ template' = NoTemplate
            /\ output_lines' = <<>>
            /\ working_memory' = <<>>
       ELSE LET t == LoadTemplate(gstore)
                name == GuideName(ti)
            IN /\ template' = t
               /\ IF GuideHeaderRaises(t)
                  THEN /\ pc' = "raised"
                       /\ exc' = "KeyError"
                       /\ result' = PyNone
                       /\ output_lines' = <<>>
                       /\ working_memory' = <<>>
                  ELSE LET body == GuideSections(Items(t.sections), 1)
                       IN IF body.raises
                          THEN /\ pc' = "raised"
                               /\ exc' = "KeyError"
                               /\ result' = PyNone
                               /\ output_lines' = GuideHeader(t, name)
                               /\ working_memory' = <<>>
                          ELSE /\ pc' = "returned"
                               /\ exc' = "none"
                               /\ output_lines' = GuideHeader(t, name) \o body.lines
                               /\ result' = PyStr(Join(GuideHeader(t, name) \o body.lines))
                               /\ working_memory' =
                                      DictPut(DictPut(DictPut(<<>>, <<"document_type">>,
                                                              PyStr(<<"item_definition">>)),
                                                      <<"system_name">>, name),
                                              <<"is_template">>, PyBool(TRUE))
    /\ UNCHANGED <<store, gstore, earlier_boosts>>

(* The call has ended and its caller has the result or the exception: the *)
(* frame is gone.  The object json.load built stays where it is, with no  *)
(* reference left to it.                                                   *)
Return ==
    /\ pc \in Ended
    /\ pc' = "idle"
    /\ fn' = "none"
    /\ tool_input' = PyNone
    /\ system_name' = PyNone
    /\ system_id' = PyNone
    /\ focus_section' = PyNone
    /\ boosted_sections' = <<>>
    /\ output_lines' = <<>>
    /\ si' = 0
    /\ sj' = 0
    /\ prompt' = <<>>
    /\ llm_log' = <<>>
    /\ result' = PyNone
    /\ exc' = "none"
    /\ working_memory' = <<>>
    /\ earlier_boosts' = boosted_sections
    /\ UNCHANGED <<store, gstore, template>>

----------------------------------------------------------------------------
(* The files and the inputs the calls are checked on *)

MaxSections == 2

\* a prompt text without replacement fields
Lit(s) == [n \in 1..Len(s) |-> [lit |-> s[n]]]
Field(f) == <<[field |-> f]>>

Meta == [work_product |-> <<"I","t","e","m">>, document_type |-> <<"T","e","m","p","l","a","t","e">>]
SysInfo == [item_name |-> PyStr(<<>>)]

\* sections of the generative template: <<key, data>>
SecIo ==
    << <<"i","o">>,
       [title |-> <<"P","o","r","t","s">>, clause_ref |-> <<"5",".","4">>,
        prompt |-> Lit(<<"a",":">>) \o Field("system_name") \o Lit(<<"/">>)
                      \o Field("system_id")] >>
SecAs ==
    << <<"A","s">>,
       [title |-> <<"B","u","s"," ","I","O">>, weight |-> 10,
        prompt |-> Lit(<<"b",":">>) \o Field("datetime_now")] >>
SecWt ==
    << <<"w","t">>,
       [title |-> <<"W","t">>, weight |-> 15, prompt |-> Lit(<<"c",":">>)] >>
SecNt ==
    << <<"i","o","x">>,
       [clause_ref |-> <<"5",".","5">>, prompt |-> Lit(<<"d",":">>)] >>
SecCo ==
    << <<"i","o","c">>,
       [title |-> <<"C","o","m","p">>, clause_ref |-> <<"5",".","6">>,
        prompt |-> Lit(<<"e",":">>),
        subsections |->
            << << <<"i","n">>,
                  [title |-> <<"I","n">>,
                   prompt |-> Lit(<<"f",":">>) \o Field("system_name")] >>,
               << <<"o","u","t">>,
                  [title |-> <<"O","u","t"," ","i","o">>, clause_ref |-> <<"5",".","7">>,
                   prompt |-> Lit(<<"g",":">>)] >> >>] >>
SecBp ==
    << <<"b","p">>,
       [title |-> <<"B","p">>, prompt |-> Lit(<<"h",":">>) \o Field("author")] >>
SecCx ==
    << <<"c","x">>,
       [title |-> <<"C","x">>,
        subsections |->
            << << <<"u">>, [title |-> <<"U">>, prompt |-> Lit(<<"i",":">>)] >>,
               << <<"i","o","2">>, [prompt |-> Lit(<<"j",":">>)] >> >>] >>
SecNp ==
    << <<"n","p">>, [title |-> <<"N","p">>, weight |-> 15] >>

SectionPool == {SecIo, SecAs, SecWt, SecNt, SecCo, SecBp, SecCx, SecNp}

DistinctKeys(q) == \A a, b \in 1..Len(q) : a /= b => q[a][1] /= q[b][1]

\* the ordered mappings of at most n of the sections of S
Mappings(S, n) == {q \in UNION {[1..k -> S] : k \in 0..n} : DistinctKeys(q)}

Absent == [kind |-> "absent"]
Garbage == [kind |-> "garbage"]
JsonFile(t) == [kind |-> "json", v |-> t]

GenStores ==
    {Absent, Garbage,
     JsonFile([system_info |-> SysInfo, sections |-> <<SecIo>>]),
     JsonFile([metadata |-> Meta, sections |-> <<SecIo>>]),
     JsonFile([metadata |-> [document_type |-> <<"T">>], system_info |-> SysInfo,
               sections |-> <<SecIo>>])}
    \cup {JsonFile([metadata |-> Meta, system_info |-> SysInfo, sections |-> q]) :
             q \in Mappings(SectionPool, MaxSections)}

\* sections of the guidance template
Two == << <<"a">>, <<"b">> >>
SecFieldValues ==
    [guidance |-> <<"g">>, example |-> <<"e">>, roles |-> Two,
     configuration_items |-> Two]
SubFieldValues ==
    [guidance |-> <<"g">>, format |-> <<"f">>, examples |-> Two,
     modes_to_consider |-> Two,
     categories |-> PyDict(<< << <<"i","n","_","o","u","t">>, PyList(Two) >>,
                              << <<"x">>, PyInt(<<"7">>) >> >>),
     structure |-> << << <<"p","a","r","t","_","o","n","e">>, <<"s">> >> >>,
     note |-> <<"n">>, scenarios_to_consider |-> Two]

\* the record r restricted to the keys in K
Only(r, K) == [k \in K |-> r[k]]

GuideTitle == [title |-> <<"T">>, clause_ref |-> <<"5">>]

Merge(a, b) == [k \in DOMAIN a \cup DOMAIN b |-> IF k \in DOMAIN b THEN b[k] ELSE a[k]]

GuideLeaves ==
    { << <<"a","p","p","r">>, Merge(h, Only(SecFieldValues, K)) >> :
         h \in {GuideTitle, [title |-> <<"T">>]},
         K \in SUBSET DOMAIN SecFieldValues }
    \cup { << <<"a","p","p","r">>, Merge([clause_ref |-> <<"5">>], SecFieldValues) >> }

GuideSubNodes ==
    { << <<"s">>, Merge(h, Only(SubFieldValues, K)) >> :
         h \in {GuideTitle, [title |-> <<"T">>]},
         K \in {L \in SUBSET DOMAIN SubFieldValues : Cardinality(L) \in {0, 1, 8}} }
    \cup { << <<"s">>, [title |-> <<"T">>, categories |-> c] >> :
              c \in {PyList(Two), PyStr(<<"c">>)} }
    \cup { << <<"s">>, Merge([clause_ref |-> <<"5">>], SubFieldValues) >> }

GuideComposites ==
    { << <<"s","c","o","p","e">>,
         [title |-> <<"S">>, subsections |-> << <<<<"r">>, [title |-> <<"R">>]>>, x >>] >> :
         x \in GuideSubNodes }

GuideStores ==
    {Absent, Garbage,
     JsonFile([sections |-> <<>>]),
     JsonFile([metadata |-> [work_product |-> <<"I">>], sections |-> <<>>])}
    \cup {JsonFile([metadata |-> Meta, sections |-> q]) :
             q \in Mappings(GuideLeaves \cup GuideComposites, MaxSections)}

Str(s) == PyStr(s)
JsonText ==
    <<"{", "\"", "system_name", "\"", ":", " ", "\"", "B", "M", "S", "\"", ",",
      "\"", "system_id", "\"", ":", "\"", "I", "D", "1", "\"", ",",
      "\"", "focus_section", "\"", ":", "\"", "I", "O", "\"", "}">>

ToolInputs ==
    {PyNone,
     Str(<<>>),
     Str(<<" ", "B", "M", "S", " ">>),
     Str(<<"1", "2", "3">>),
     Str(<<"{", "B", "M", "S">>),
     Str(JsonText),
     PyDict(<< <<K_system_name, Str(<<"E", "P", "S">>)>>,
               <<K_focus_section, Str(<<"b", "u", "s">>)>> >>),
     PyDict(<< <<K_focus_section, Str(<<"z", "z">>)>>,
               <<K_system_id, Str(<<"X">>)>> >>),
     PyDict(<< <<K_system_name, PyInt(<<"7">>)>> >>),
     PyDict(<< <<K_focus_section, PyInt(<<"5">>)>> >>),
     PyDict(<< <<K_focus_section, Str(<<>>)>> >>)}

----------------------------------------------------------------------------

\* one of the two files is varied at a time: a call reads one of them only
Init ==
    /\ \/ store \in GenStores /\ gstore = Absent
       \/ store = Absent /\ gstore \in GuideStores
    /\ pc = "idle"
    /\ fn = "none"
    /\ tool_input = PyNone
    /\ system_name = PyNone
    /\ system_id = PyNone
    /\ focus_section = PyNone
    /\ template = NoTemplate
    /\ boosted_sections = <<>>
    /\ output_lines = <<>>
    /\ si = 0
    /\ sj = 0
    /\ prompt = <<>>
    /\ llm_log = <<>>
    /\ result = PyNone
    /\ exc = "none"
    /\ working_memory = <<>>
    /\ earlier_boosts = <<>>

Next ==
    \/ \E ti \in ToolInputs : GenInvoke(ti)
    \/ ApplyFocus
    \/ SectionStep
    \/ SubStep
    \/ \E reply \in Replies(prompt) : LlmReturns(reply)
    \/ LlmRaises
    \/ Finish
    \/ \E ti \in ToolInputs : GuideInvoke(ti)
    \/ Return

Spec == Init /\ [][Next]_vars

----------------------------------------------------------------------------
(* What the properties are stated in *)

RECURSIVE SplitFrom(_, _, _)
SplitFrom(s, n, cur) ==
    IF n > Len(s) THEN <<cur>>
    ELSE IF s[n] = "\n" THEN <<cur>> \o SplitFrom(s, n + 1, <<>>)
    ELSE SplitFrom(s, n + 1, Append(cur, s[n]))

\* the lines of a returned text
SplitLines(s) == SplitFrom(s, 1, <<>>)

IsPrefix(a, b) == Len(a) <= Len(b) /\ SubSeq(b, 1, Len(a)) = a

\* the sections as the file at TEMPLATE_PATH declares them
Declared == store.v.sections

\* the generative tool is running or has ended, on a template that parsed
GenCall == fn = GenTool /\ store.kind = "json"

\* the generative tool has returned a document
DocReturned == GenCall /\ pc = "returned"

DocLines == SplitLines(result.v)

IsHeading(l) == Len(l) >= 1 /\ l[1] \in {"## ", "### "}
IsClauseLine(l) == Len(l) >= 1 /\ l[1] = "*Clause: "
HasMarker(p) == Len(p) >= 1 /\ p[1] = "[FOCUS AREA - IMPORTANT] "
Placeholder == <<"[Content generation failed]">>

Headings(lines) == SelectSeq(lines, IsHeading)

Titled(d) == "title" \in DOMAIN d
WithSubs(d) == "subsections" \in DOMAIN d

RECURSIVE DeclaredSubNodes(_, _, _)
DeclaredSubNodes(sec_key, subs, m) ==
    IF m > Len(subs) THEN <<>>
    ELSE << [path |-> <<sec_key, subs[m][1]>>, data |-> subs[m][2], leaf |-> TRUE] >>
         \o DeclaredSubNodes(sec_key, subs, m + 1)

RECURSIVE DeclaredNodes(_, _)
\* the nodes a traversal renders, in the order of declaration: every titled
\* section, followed by its subsections when it has any
DeclaredNodes(secs, n) ==
    IF n > Len(secs) THEN <<>>
    ELSE (IF ~Titled(secs[n][2]) THEN <<>>
          ELSE << [path |-> <<secs[n][1]>>, data |-> secs[n][2],
                   leaf |-> ~WithSubs(secs[n][2])] >>
               \o (IF WithSubs(secs[n][2])
                   THEN DeclaredSubNodes(secs[n][1], secs[n][2].subsections, 1)
                   ELSE <<>>))
         \o DeclaredNodes(secs, n + 1)

Nodes == DeclaredNodes(Declared, 1)
IsLeafNode(x) == x.leaf
Leaves == SelectSeq(Nodes, IsLeafNode)
LeafPaths == [k \in 1..Len(Leaves) |-> Leaves[k].path]
LogPaths == [k \in 1..Len(llm_log) |-> llm_log[k].node]

\* the declared data of the node an invocation was made for
DeclaredOf(path) == (CHOOSE x \in {Nodes[k] : k \in 1..Len(Nodes)} : x.path = path).data

HeadingOf(x) ==
    (IF Len(x.path) = 1 THEN <<"## ">> ELSE <<"### ">>) \o x.data.title

RECURSIVE HeadingsOfNodes(_, _)
HeadingsOfNodes(nodes, n) ==
    IF n > Len(nodes) THEN <<>>
    ELSE (IF Titled(nodes[n].data) THEN <<HeadingOf(nodes[n])>> ELSE <<>>)
         \o HeadingsOfNodes(nodes, n + 1)

DeclaredHeadings == HeadingsOfNodes(Nodes, 1)

RECURSIVE LineCount(_, _)
\* heading, clause line when declared, and content plus blank line for a leaf
LineCount(nodes, n) ==
    IF n > Len(nodes) THEN 0
    ELSE 1 + (IF "clause_ref" \in DOMAIN nodes[n].data THEN 1 ELSE 0)
           + (IF nodes[n].leaf THEN 2 ELSE 0)
           + LineCount(nodes, n + 1)

Failed(e) == e.reply.t \notin {"str", "pending"}
Succeeded(e) == e.reply.t = "str"
FailedEntries == {k \in 1..Len(llm_log) : Failed(llm_log[k])}

\* the keyword the caller gave, as the call reads it from its input
CallFocus == ParseToolInput(tool_input).focus_section
HasKeyword == CallFocus.t = "str" /\ CallFocus.v /= <<>>
Keyword == Lower(CallFocus.v)

\* the keyword is in the node's own key or title, whatever the case
OwnMatch(key, d) ==
    \/ Contains(Keyword, Lower(key))
    \/ Titled(d) /\ Contains(Keyword, Lower(d.title))

DeclaredWeight(d) == IF "weight" \in DOMAIN d THEN d.weight ELSE 10

----------------------------------------------------------------------------
(* C1: the headings and sub-headings of the generative output are in the   *)
(* declared order of the template's sections and subsections, whichever    *)
(* generator calls fail, and a section without title adds no line: at any  *)
(* point of the traversal the headings written are the first of the        *)
(* declared ones, and the returned document has all of them and exactly    *)
(* the lines of the titled nodes after its four header lines.              *)
C1_HeadingsInDeclaredOrder ==
    GenCall =>
        /\ IsPrefix(Headings(output_lines), DeclaredHeadings)
        /\ pc = "returned" =>
              /\ Headings(DocLines) = DeclaredHeadings
              /\ Len(DocLines) = 4 + LineCount(Nodes, 1)

C1_Witness ==
    /\ DocReturned
    /\ Len(Declared) >= 2
    /\ ~Titled(Declared[1][2])
    /\ Len(DeclaredHeadings) >= 3
    /\ \E k \in 1..Len(llm_log) : Failed(llm_log[k])
    /\ \E k \in 1..Len(llm_log) : Succeeded(llm_log[k])

----------------------------------------------------------------------------
(* C2: when the generator fails for exactly one subsection, the returned   *)
(* document has the content of every other leaf at its place and one       *)
(* placeholder line at the place of the failed subsection, and a failure   *)
(* of the generator never makes the call raise: a call raises only before  *)
(* the first invocation or at a node whose title or prompt is at fault.    *)

IsBodyLine(l) == l /= <<>> /\ ~IsClauseLine(l)

\* the headings and content lines of a document, without its header
Skeleton(lines) == SelectSeq(SubSeq(lines, 5, Len(lines)), IsBodyLine)

ContentOf(e) == IF Succeeded(e) THEN Strip(e.reply.v) ELSE Placeholder

RECURSIVE ExpectedSkeleton(_, _, _)
\* each node's heading, a leaf's followed by what its invocation gave
ExpectedSkeleton(nodes, n, k) ==
    IF n > Len(nodes) THEN <<>>
    ELSE IF nodes[n].leaf
    THEN <<HeadingOf(nodes[n]), ContentOf(llm_log[k + 1])>>
         \o ExpectedSkeleton(nodes, n + 1, k + 1)
    ELSE <<HeadingOf(nodes[n])>> \o ExpectedSkeleton(nodes, n + 1, k)

IsPlaceholderLine(l) == l = Placeholder

OneSubsectionFailed ==
    /\ Cardinality(FailedEntries) = 1
    /\ \A k \in FailedEntries : Len(llm_log[k].node) = 2

\* the node the traversal is at lacks a title or a usable prompt
NodeAtFault ==
    /\ si \in 1..Len(Declared)
    /\ LET d == IF sj = 0 THEN Declared[si][2]
                ELSE Declared[si][2].subsections[sj][2]
       IN \/ ~Titled(d)
          \/ "prompt" \notin DOMAIN d
          \/ \E n \in 1..Len(d.prompt) :
                 "field" \in DOMAIN d.prompt[n]
                     /\ d.prompt[n].field \notin {"system_name", "system_id", "datetime_now"}

C2_FailureIsolated ==
    /\ (DocReturned /\ OneSubsectionFailed) =>
           /\ Len(llm_log) = Len(Leaves)
           /\ Skeleton(DocLines) = ExpectedSkeleton(Nodes, 1, 0)
           /\ Len(SelectSeq(DocLines, IsPlaceholderLine)) = 1
    /\ (GenCall /\ pc = "raised") =>
           \/ llm_log = <<>> /\ si = 0
           \/ NodeAtFault

C2_Witness ==
    /\ DocReturned
    /\ OneSubsectionFailed
    /\ Len(llm_log) >= 3
    /\ Failed(llm_log[1])
    /\ llm_log[1].reply.t = "raised"

----------------------------------------------------------------------------
(* C3: when the template file is absent or does not parse, either tool     *)
(* returns its one error string, has written no output line and has made   *)
(* no invocation of the generator.                                         *)
C3_LoadFailureIsFatal ==
    /\ (fn = GenTool /\ store.kind \in {"absent", "garbage"}) =>
           /\ pc = "returned"
           /\ result = PyStr(<<"Error: Could not load Item Definition template.">>)
           /\ output_lines = <<>>
           /\ llm_log = <<>>
    /\ (fn = GuideTool /\ gstore.kind \in {"absent", "garbage"}) =>
           /\ pc = "returned"
           /\ result = PyStr(<<"Error: Could not load Item Definition template guidance.">>)
           /\ output_lines = <<>>
           /\ llm_log = <<>>

C3_Witness ==
    /\ fn = GenTool
    /\ store.kind = "garbage"
    /\ pc = "returned"
    /\ tool_input.t = "dict"

----------------------------------------------------------------------------
(* C4 as stated: with a focus keyword, every prompt dispatched for a       *)
(* section whose key contains the keyword (its own, or those of its        *)
(* subsections) has the priority marker, and every prompt dispatched for   *)
(* a section with no key or title containing the keyword, its              *)
(* subsections' included, has none.                                        *)

SectionOf(path) == CHOOSE x \in {Declared[n] : n \in 1..Len(Declared)} : x[1] = path[1]

NoMatchInSection(sec) ==
    /\ ~OwnMatch(sec[1], sec[2])
    /\ WithSubs(sec[2]) =>
           \A m \in 1..Len(sec[2].subsections) :
               ~OwnMatch(sec[2].subsections[m][1], sec[2].subsections[m][2])

C4_MarkerFollowsSection ==
    (GenCall /\ HasKeyword) =>
        \A k \in 1..Len(llm_log) :
            LET sec == SectionOf(llm_log[k].node)
            IN /\ Contains(Keyword, Lower(sec[1])) => HasMarker(llm_log[k].prompt)
               /\ NoMatchInSection(sec) => ~HasMarker(llm_log[k].prompt)

(* C4 as amended: with a focus keyword, a dispatched prompt has the        *)
(* priority marker exactly when the keyword is in the key or title of the  *)
(* node it is dispatched for (the section when it has no subsections,      *)
(* else the subsection), or that node's declared weight is above 1.0.      *)
C4_MarkerFollowsNode ==
    (GenCall /\ HasKeyword) =>
        \A k \in 1..Len(llm_log) :
            LET path == llm_log[k].node
                d == DeclaredOf(path)
            IN HasMarker(llm_log[k].prompt)
                   <=> (OwnMatch(path[Len(path)], d) \/ DeclaredWeight(d) > 10)

C4_Witness ==
    /\ GenCall
    /\ HasKeyword
    /\ \E k \in 1..Len(llm_log) :
           /\ Len(llm_log[k].node) = 1
           /\ Contains(Keyword, Lower(llm_log[k].node[1]))
           /\ HasMarker(llm_log[k].prompt)
    /\ \E k \in 1..Len(llm_log) :
           /\ Len(llm_log[k].node) = 2
           /\ Contains(Keyword, Lower(llm_log[k].node[1]))
           /\ ~HasMarker(llm_log[k].prompt)
    /\ \E k \in 1..Len(llm_log) :
           /\ Len(llm_log[k].node) = 2
           /\ HasMarker(llm_log[k].prompt)

----------------------------------------------------------------------------
(* C5 as stated: a prompt with an unknown replacement field fails for its  *)
(* node only; the call does not raise because of it.                       *)

UnknownField(d) ==
    /\ "prompt" \in DOMAIN d
    /\ \E n \in 1..Len(d.prompt) :
           "field" \in DOMAIN d.prompt[n]
               /\ d.prompt[n].field \notin {"system_name", "system_id", "datetime_now"}

\* the declared data of the node the traversal is at
DeclaredAtCursor ==
    IF sj = 0 THEN Declared[si][2] ELSE Declared[si][2].subsections[sj][2]

AtNode == si \in 1..Len(Declared) /\ (sj = 0 \/ WithSubs(Declared[si][2]))

C5_UnknownPlaceholderIsolated ==
    ~(GenCall /\ pc = "raised" /\ AtNode /\ Titled(DeclaredAtCursor)
        /\ UnknownField(DeclaredAtCursor))

----------------------------------------------------------------------------
(* C6 as stated: a node without title adds nothing to the output, the      *)
(* traversal goes on past it, its weight is never boosted and it is never  *)
(* in the list of boosted nodes.                                           *)

\* the data of the node at a path of one or two keys, in the sections secs
RECURSIVE Lookup(_, _, _)
Lookup(pairs, key, n) ==
    IF pairs[n][1] = key THEN pairs[n][2] ELSE Lookup(pairs, key, n + 1)

NodeAt(secs, path) ==
    IF Len(path) = 1 THEN Lookup(secs, path[1], 1)
    ELSE Lookup(Lookup(secs, path[1], 1).subsections, path[2], 1)

AllPaths(secs) ==
    {<<secs[n][1]>> : n \in 1..Len(secs)}
    \cup UNION {{<<secs[n][1], secs[n][2].subsections[m][1]>> :
                    m \in 1..Len(secs[n][2].subsections)} :
                n \in {x \in 1..Len(secs) : WithSubs(secs[x][2])}}

SameWeight(d, e) ==
    /\ ("weight" \in DOMAIN d) = ("weight" \in DOMAIN e)
    /\ "weight" \in DOMAIN d => d.weight = e.weight

C6_UntitledNodeIgnored ==
    (GenCall /\ "sections" \in DOMAIN template) =>
           /\ \A k \in 1..Len(boosted_sections) :
                  Titled(NodeAt(Declared, boosted_sections[k]))
           /\ \A path \in AllPaths(Declared) :
                  ~Titled(NodeAt(Declared, path)) =>
                      SameWeight(NodeAt(template.sections, path), NodeAt(Declared, path))
           /\ ~(pc = "raised" /\ AtNode /\ ~Titled(DeclaredAtCursor))

----------------------------------------------------------------------------
(* C7 as stated: the input is resolved without raising; empty or missing   *)
(* input gives the default name, no id and no focus; a mapping gives its   *)
(* system_name and system_id, the defaults for missing keys; any other     *)
(* text gives the whole trimmed text as the name.                          *)

IsMappingText(ti) == ti.t = "str" /\ JsonLoads(ti.v).ok /\ JsonLoads(ti.v).val.t = "dict"

Resolved(default) ==
    IF tool_input.t = "None" \/ (tool_input.t = "str" /\ tool_input.v = <<>>)
    THEN system_name = PyStr(default)
    ELSE IF tool_input.t = "dict"
    THEN system_name = DictGet(tool_input.v, K_system_name, PyStr(default))
    ELSE IF IsMappingText(tool_input)
    THEN system_name \in {PyStr(Strip(tool_input.v)),
                          DictGet(JsonLoads(tool_input.v).val.v, K_system_name,
                                  PyStr(default))}
    ELSE system_name = PyStr(Strip(tool_input.v))

C7_InputResolved ==
    /\ fn = GenTool => Resolved(DefaultSystemName)
    /\ fn = GuideTool => Resolved(DefaultItemName)

----------------------------------------------------------------------------
(* C8 as stated: on a loaded guidance template the guidance tool returns a *)
(* document whatever per-node fields are absent, and never invokes the     *)
(* generator.                                                              *)
C8_GuidanceNeverFails ==
    (fn = GuideTool /\ gstore.kind = "json" /\ ~GuideHeaderRaises(gstore.v)) =>
        /\ pc = "returned"
        /\ llm_log = <<>>

----------------------------------------------------------------------------
(* C9: boosts and stored content do not outlive a call.  Whatever calls    *)
(* came before, the weight of every node of the template a call works on   *)
(* is the boosted weight when this call's own keyword is in its key or     *)
(* title and the weight the file declares otherwise, and every stored      *)
(* content is the trimmed reply to an invocation this call made for the    *)
(* node.                                                                   *)

\* the boosts of lines 75-100 have been applied
Boosted == si >= 1

ContentFromThisCall(path, d) ==
    "content" \in DOMAIN d =>
        \E k \in 1..Len(llm_log) :
            /\ llm_log[k].node = path
            /\ Succeeded(llm_log[k])
            /\ d.content = Strip(llm_log[k].reply.v)

C9_NothingPersists ==
    (GenCall /\ (pc = "focus" \/ Boosted)) =>
        /\ AllPaths(template.sections) = AllPaths(Declared)
        /\ \A path \in AllPaths(Declared) :
               LET d == NodeAt(template.sections, path)
                   d0 == NodeAt(Declared, path)
               IN /\ IF Boosted /\ HasKeyword /\ OwnMatch(path[Len(path)], d0)
                     THEN "weight" \in DOMAIN d /\ d.weight = 20
                     ELSE SameWeight(d, d0)
                  /\ ContentFromThisCall(path, d)

\* a call without keyword dispatches, without the marker, the prompt of a
\* node the call before it boosted
C9_Witness ==
    /\ GenCall
    /\ pc = "llm"
    /\ ~HasKeyword
    /\ \E k \in 1..Len(earlier_boosts) : earlier_boosts[k] = NodePath
    /\ ~HasMarker(prompt)

----------------------------------------------------------------------------
(* C10: in a generative call the generator is invoked once for each        *)
(* rendered leaf (each subsection of a titled section that has             *)
(* subsections, each titled section that has none), in the declared        *)
(* order, one invocation at a time and never again after a failure; a      *)
(* section with subsections is never dispatched itself; and every boost    *)
(* is in place before the first invocation.                                *)
C10_OnceEachInOrder ==
    GenCall =>
        /\ IsPrefix(LogPaths, LeafPaths)
        /\ pc = "returned" => LogPaths = LeafPaths
        /\ \A k \in 1..Len(llm_log) :
               (llm_log[k].reply.t = "pending") <=> (k = Len(llm_log) /\ pc = "llm")
        /\ (llm_log /= <<>> /\ HasKeyword) =>
               \A path \in AllPaths(Declared) :
                   OwnMatch(path[Len(path)], NodeAt(Declared, path)) =>
                       LET d == NodeAt(template.sections, path)
                       IN "weight" \in DOMAIN d /\ d.weight = 20

C10_Witness ==
    /\ DocReturned
    /\ HasKeyword
    /\ Len(llm_log) >= 3
    /\ \E n \in 1..Len(Declared) :
           WithSubs(Declared[n][2]) /\ "prompt" \in DOMAIN Declared[n][2]
               /\ Titled(Declared[n][2])
    /\ \E k \in 1..Len(llm_log) : Failed(llm_log[k])
    /\ \E k \in 1..Len(llm_log) : HasMarker(llm_log[k].prompt)

====
